---- MODULE Spec2Model ----
(***************************************************************************)
(* A model of the WebHCat client (src/src/WebHCat.ts): the host rotation   *)
(* (changeHost), the request dispatcher (request, with its catch handler   *)
(* that rotates and retries on a 503) and the catalog methods that         *)
(* delegate to it.  Several callers share one client; the transport is     *)
(* asynchronous, so a call is suspended between issuing an HTTP request    *)
(* and the continuation that handles its settlement.                       *)
(***************************************************************************)
EXTENDS Integers, Sequences, FiniteSets, TLC

\* ---------------------------------------------------------------- bounds
\* Number of callers sharing the client; each makes one call.
NumCallers == 2
\* Total number of HTTP requests the model lets the client issue.
MaxRequests == 4

Callers == 1..NumCallers

\* ------------------------------------------------------- program constants
DefaultPort == 50111
Busy == 503
NotPartitioned == 10241

\* An optional value: <<>> is JavaScript's undefined, <<v>> a present value.
Undefined == <<>>
Some(v) == <<v>>

\* The empty query-parameter map, {} (default parameter of request()).
EmptyParams == [k \in {} |-> ""]

\* ------------------------------------------------------------ construction
\* The options objects the model constructs the client from.
OptionsSet ==
  { [username |-> Undefined, port |-> Undefined, hosts |-> Undefined],
    [username |-> Some("bob"), port |-> Some(1234), hosts |-> Some(<<"h1", "h2">>)],
    [username |-> Undefined, port |-> Undefined, hosts |-> Some(<<"hA", "hB", "hC">>)] }

\* Field initialisers overridden by the options that are present.
ConfiguredUsername(options) ==
  IF options.username # Undefined THEN options.username[1] ELSE "APP"

ConfiguredPort(options) ==
  IF options.port # Undefined THEN options.port[1] ELSE DefaultPort

ConfiguredHosts(options) ==
  IF options.hosts # Undefined THEN options.hosts[1] ELSE <<"localhost">>

\* ---------------------------------------------------------------- rotation
\* Variant: the cursor wraps one place too early.
NextIndexEarlyWrap(index, length) ==
  IF index + 1 >= length - 1 THEN 0 ELSE index + 1

\* Variant: the cursor wraps to the second host.
NextIndexWrapToOne(index, length) ==
  IF index + 1 = length THEN 1 % length ELSE index + 1

\* Variant: the cursor moves two places.
NextIndexSkip(index, length) ==
  (index + 2) % length

\* activeHostIndex += 1, wrapping to 0 when it reaches hosts.length.
NextIndex(index, length) ==
  IF index + 1 = length THEN 0 ELSE index + 1

\* Variant: the port is left out of the URL.
BaseURLNoPort(activeHost, p) ==
  "http://" \o activeHost \o "/templeton/v1"

\* The template string `http://${activeHost}:${this.port}/templeton/v1`.
BaseURLOf(activeHost, p) ==
  "http://" \o activeHost \o ":" \o ToString(p) \o "/templeton/v1"

\* changeHost(): the new cursor and the base URL recomputed from it
\* (JavaScript arrays are 0-based, TLA+ sequences 1-based).
changeHost(index, hs, p) ==
  LET next == NextIndex(index, Len(hs))
  IN  [activeHostIndex |-> next, baseURL |-> BaseURLOf(hs[next + 1], p)]

\* n consecutive calls of changeHost() from cursor `index`.
RECURSIVE changeHostTimes(_, _, _, _)
changeHostTimes(n, index, hs, p) ==
  IF n = 1 THEN changeHost(index, hs, p)
  ELSE changeHostTimes(n - 1, changeHost(index, hs, p).activeHostIndex, hs, p)

\* ---------------------------------------------------------------- requests
\* Variant: the identity is only filled in when the caller gave none.
InjectUserIfAbsent(queryParams, user) ==
  [k \in DOMAIN queryParams \cup {"user.name"} |->
     IF k \in DOMAIN queryParams THEN queryParams[k] ELSE user]

\* queryParams['user.name'] = this.username
InjectUser(queryParams, user) ==
  [k \in DOMAIN queryParams \cup {"user.name"} |->
     IF k = "user.name" THEN user ELSE queryParams[k]]

\* The options object handed to requestPromiseNative.
RequestOptions(path, method, queryParams, body, base, user) ==
  [method |-> method, uri |-> path, baseUrl |-> base,
   qs |-> InjectUser(queryParams, user), json |-> TRUE, form |-> body]

\* Variant: every status error counts as busy.
IsBusyAnyStatus(error) ==
  error.name = "StatusCodeError"

\* error instanceof StatusCodeError && error.statusCode === 503
IsBusy(error) ==
  error.name = "StatusCodeError" /\ error.statusCode = Some(Busy)

\* Variant: the retry replays the whole original call.
RetryReplay(path, method, queryParams, body) ==
  [path |-> path, method |-> method, queryParams |-> queryParams, body |-> body]

\* The arguments of the retry, this.request(path, method).  Of the four
\* variables the handler closes over it forwards path and method only:
\* queryParams takes its default {} and body is undefined.
RetryArgs(path, method, queryParams, body) ==
  [path |-> path, method |-> method, queryParams |-> EmptyParams, body |-> Undefined]

\* ---------------------------------------------------------- catalog methods
\* get(path, queryParams) delegates to request(path, 'GET', queryParams).
get(op, path, queryParams) ==
  [op |-> op, path |-> path, method |-> "GET", queryParams |-> queryParams,
   body |-> Undefined]

getServerStatus == get("getServerStatus", "/status", EmptyParams)

\* Variant: the extended format is requested whatever the flag says.
describeTableAlwaysExtended(database, table, extended) ==
  get("describeTable", "/ddl/database/" \o database \o "/table/" \o table,
      [k \in {"format"} |-> "extended"])

describeTable(database, table, extended) ==
  get("describeTable", "/ddl/database/" \o database \o "/table/" \o table,
      IF extended THEN [k \in {"format"} |-> "extended"] ELSE EmptyParams)

listPartitions(database, table) ==
  get("listPartitions",
      "/ddl/database/" \o database \o "/table/" \o table \o "/partition",
      EmptyParams)

\* A direct use of the dispatcher with caller-supplied parameters and body.
DirectRequests ==
  { [op |-> "request", path |-> "/status", method |-> "POST",
     queryParams |-> [k \in {"user.name", "format"} |->
                        IF k = "user.name" THEN "eve" ELSE "extended"],
     body |-> Some([exec |-> "ls"])] }

Invocations ==
  {getServerStatus, listPartitions("d", "t")}
    \cup {describeTable("d", "t", e) : e \in BOOLEAN}
    \cup DirectRequests

\* res.field of a decoded JSON object: undefined when the field is absent.
Field(res, name) ==
  IF name \in DOMAIN res THEN <<"value", res[name]>> ELSE <<"undefined">>

\* Variant: no method projects a field.
ProjectNothing(op, res) ==
  <<"object", res>>

\* The .then(res => ...) projection of each catalog method; describeTable
\* and a direct request return the decoded body itself.
Project(op, res) ==
  CASE op = "getServerStatus" -> Field(res, "status")
    [] op = "listPartitions"  -> Field(res, "partitions")
    [] OTHER                  -> <<"object", res>>

\* ---------------------------------------------------------------- transport
\* Decoded JSON bodies of 200 responses.
Bodies == { [status |-> "ok"], [partitions |-> "p0", table |-> "t"] }

NoError == [name |-> "none", statusCode |-> Undefined]
NoBody == [k \in {} |-> ""]
BusyError == [name |-> "StatusCodeError", statusCode |-> Some(Busy)]

\* Rejections of the transport other than the 503 status error.
OtherErrors ==
  { [name |-> "StatusCodeError", statusCode |-> Some(NotPartitioned)],
    [name |-> "RequestError", statusCode |-> Undefined] }

NoArgs ==
  [op |-> "none", path |-> "", method |-> "", queryParams |-> EmptyParams,
   body |-> Undefined]

NoOutcome ==
  [kind |-> "none", value |-> <<"undefined">>, error |-> NoError]

\* What the transport settles a request with.
Fulfilled(b) == [kind |-> "fulfilled", body |-> b, error |-> NoError]
Rejected(e) == [kind |-> "rejected", body |-> NoBody, error |-> e]

\* -------------------------------------------------------------------- state
VARIABLES
  hosts, port, username,      \* configuration fields of the client
  activeHostIndex, baseURL,   \* the rotation cursor and the stored base URL
  args,                       \* per caller: the arguments of its call
  state,                      \* per caller: idle, pending, resolved, rejected
  sent,                       \* per caller: the HTTP requests issued for its call
  inflight,                   \* the requests awaiting a response: <<caller, attempt>>
  received,                   \* per caller: the settlements the transport delivered
  outcome,                    \* per caller: what the call resolved or rejected with
  advances,                   \* number of changeHost() calls so far
  healthy                     \* positions of the hosts known never to answer 503

config == <<hosts, port, username, healthy>>
rotor == <<activeHostIndex, baseURL>>
vars == <<hosts, port, username, activeHostIndex, baseURL, args, state, sent,
          inflight, received, outcome, advances, healthy>>

\* Number of HTTP requests issued so far, over all callers.
RECURSIVE SentUpTo(_)
SentUpTo(n) == IF n = 0 THEN 0 ELSE Len(sent[n]) + SentUpTo(n - 1)
TotalSent == SentUpTo(NumCallers)

\* The model stops handing out work once MaxRequests requests were issued.
WithinBudget == TotalSent < MaxRequests

\* Number of 503 settlements delivered so far, over all callers.
RECURSIVE BusyUpTo(_)
BusyUpTo(n) ==
  IF n = 0 THEN 0
  ELSE Cardinality({k \in 1..Len(received[n]) :
                      received[n][k] = Rejected(BusyError)}) + BusyUpTo(n - 1)
TotalBusy == BusyUpTo(NumCallers)

\* Number of 503 settlements delivered to c so far.
BusyCount(c) ==
  Cardinality({k \in 1..Len(received[c]) : received[c][k] = Rejected(BusyError)})

\* --------------------------------------------------------------------- Init
\* The state after `new WebHCat(options)`: the fields take their initialisers
\* (activeHostIndex = -1, baseURL = ''), the options override them, and the
\* constructor calls changeHost() once.
Constructed(options) ==
  LET first == changeHost(-1, ConfiguredHosts(options), ConfiguredPort(options))
  IN  /\ hosts = ConfiguredHosts(options)
      /\ port = ConfiguredPort(options)
      /\ username = ConfiguredUsername(options)
      /\ activeHostIndex = first.activeHostIndex
      /\ baseURL = first.baseURL
      /\ args = [c \in Callers |-> NoArgs]
      /\ state = [c \in Callers |-> "idle"]
      /\ sent = [c \in Callers |-> <<>>]
      /\ inflight = {}
      /\ received = [c \in Callers |-> <<>>]
      /\ outcome = [c \in Callers |-> NoOutcome]
      /\ advances = 1

\* Nothing is known about the hosts: any of them may answer 503.
Init ==
  \E options \in OptionsSet : Constructed(options) /\ healthy = {}

\* At least one host of the pool never answers 503.
InitLive ==
  \E options \in OptionsSet :
    \E good \in (SUBSET (1..Len(ConfiguredHosts(options)))) \ {{}} :
      Constructed(options) /\ healthy = good

\* ------------------------------------------------------------------ actions
\* The synchronous part of request(): inject the identity, build the options
\* from the base URL stored at this moment and hand them to the transport.
\* `index` and `count` are the cursor and the number of changeHost() calls at
\* that moment, recorded with the request.
Issue(c, a, base, index, count) ==
  /\ sent' = [sent EXCEPT ![c] = Append(@,
        [options |-> RequestOptions(a.path, a.method, a.queryParams, a.body,
                                    base, username),
         index |-> index, advances |-> count])]
  /\ inflight' = (inflight \ {<<c, Len(sent[c])>>}) \cup {<<c, Len(sent[c]) + 1>>}
  /\ state' = [state EXCEPT ![c] = "pending"]

\* Variant: a new call starts over from the first host.
StartCallFromFirstHost(c) ==
  /\ state[c] = "idle"
  /\ WithinBudget
  /\ activeHostIndex' = 0
  /\ baseURL' = BaseURLOf(hosts[1], port)
  /\ \E a \in Invocations :
       /\ args' = [args EXCEPT ![c] = a]
       /\ Issue(c, a, BaseURLOf(hosts[1], port), 0, advances)
  /\ UNCHANGED <<config, received, outcome, advances>>

\* A caller invokes a catalog method (or the dispatcher directly).
StartCall(c) ==
  /\ state[c] = "idle"
  /\ WithinBudget
  /\ \E a \in Invocations :
       /\ args' = [args EXCEPT ![c] = a]
       /\ Issue(c, a, baseURL, activeHostIndex, advances)
  /\ UNCHANGED <<config, rotor, received, outcome, advances>>

\* The call of c ends: its promise resolves or rejects.
Finish(c, kind, value, error) ==
  /\ state' = [state EXCEPT ![c] = kind]
  /\ outcome' = [outcome EXCEPT ![c] =
        [kind |-> kind, value |-> value, error |-> error]]
  /\ inflight' = inflight \ {<<c, Len(sent[c])>>}
  /\ UNCHANGED <<config, rotor, args, sent, advances>>

\* Variant: the host is changed after every response, successful or not.
ThenRotating(c, res) ==
  LET moved == changeHost(activeHostIndex, hosts, port)
  IN  /\ state' = [state EXCEPT ![c] = "resolved"]
      /\ outcome' = [outcome EXCEPT ![c] =
            [kind |-> "resolved", value |-> Project(args[c].op, res),
             error |-> NoError]]
      /\ inflight' = inflight \ {<<c, Len(sent[c])>>}
      /\ activeHostIndex' = moved.activeHostIndex
      /\ baseURL' = moved.baseURL
      /\ advances' = advances + 1
      /\ UNCHANGED <<config, args, sent>>

\* The request promise fulfilled with the decoded body: the catch handler is
\* skipped and the catalog method's projection gives the value of the call.
Then(c, res) ==
  Finish(c, "resolved", Project(args[c].op, res), NoError)

\* Variant: a call gives up once it has been tried as often as there are hosts.
CatchCapped(c, error) ==
  IF IsBusy(error) /\ Len(sent[c]) < Len(hosts)
  THEN LET moved == changeHost(activeHostIndex, hosts, port)
       IN  /\ activeHostIndex' = moved.activeHostIndex
           /\ baseURL' = moved.baseURL
           /\ advances' = advances + 1
           /\ Issue(c, RetryArgs(args[c].path, args[c].method,
                                 args[c].queryParams, args[c].body),
                    moved.baseURL, moved.activeHostIndex, advances + 1)
           /\ UNCHANGED <<config, args, outcome>>
  ELSE Finish(c, "rejected", <<"undefined">>, error)

\* Variant: the retry is started but not returned, and the error rethrown.
CatchDetached(c, error) ==
  IF IsBusy(error)
  THEN LET moved == changeHost(activeHostIndex, hosts, port)
           a == RetryArgs(args[c].path, args[c].method, args[c].queryParams,
                          args[c].body)
       IN  /\ activeHostIndex' = moved.activeHostIndex
           /\ baseURL' = moved.baseURL
           /\ advances' = advances + 1
           /\ sent' = [sent EXCEPT ![c] = Append(@,
                 [options |-> RequestOptions(a.path, a.method, a.queryParams,
                                             a.body, moved.baseURL, username),
                  index |-> moved.activeHostIndex, advances |-> advances + 1])]
           /\ inflight' = (inflight \ {<<c, Len(sent[c])>>})
                             \cup {<<c, Len(sent[c]) + 1>>}
           /\ state' = [state EXCEPT ![c] = "rejected"]
           /\ outcome' = [outcome EXCEPT ![c] =
                 [kind |-> "rejected", value |-> <<"undefined">>,
                  error |-> error]]
           /\ UNCHANGED <<config, args>>
  ELSE Finish(c, "rejected", <<"undefined">>, error)

\* Variant: the host is changed on every failure, the retry kept for 503.
CatchRotateAlways(c, error) ==
  LET moved == changeHost(activeHostIndex, hosts, port)
  IN  /\ activeHostIndex' = moved.activeHostIndex
      /\ baseURL' = moved.baseURL
      /\ advances' = advances + 1
      /\ IF IsBusy(error)
         THEN /\ Issue(c, RetryArgs(args[c].path, args[c].method,
                                    args[c].queryParams, args[c].body),
                       moved.baseURL, moved.activeHostIndex, advances + 1)
              /\ UNCHANGED <<config, args, outcome>>
         ELSE /\ state' = [state EXCEPT ![c] = "rejected"]
              /\ outcome' = [outcome EXCEPT ![c] =
                    [kind |-> "rejected", value |-> <<"undefined">>,
                     error |-> error]]
              /\ inflight' = inflight \ {<<c, Len(sent[c])>>}
              /\ UNCHANGED <<config, args, sent>>

\* Variant: the retry goes to the same host again.
CatchNoRotate(c, error) ==
  IF IsBusy(error)
  THEN /\ Issue(c, RetryArgs(args[c].path, args[c].method,
                             args[c].queryParams, args[c].body),
                baseURL, activeHostIndex, advances)
       /\ UNCHANGED <<config, rotor, args, outcome, advances>>
  ELSE Finish(c, "rejected", <<"undefined">>, error)

\* Variant: the retry is issued before the host is changed.
CatchStaleBase(c, error) ==
  IF IsBusy(error)
  THEN LET moved == changeHost(activeHostIndex, hosts, port)
       IN  /\ activeHostIndex' = moved.activeHostIndex
           /\ baseURL' = moved.baseURL
           /\ advances' = advances + 1
           /\ Issue(c, RetryArgs(args[c].path, args[c].method,
                                 args[c].queryParams, args[c].body),
                    baseURL, activeHostIndex, advances)
           /\ UNCHANGED <<config, args, outcome>>
  ELSE Finish(c, "rejected", <<"undefined">>, error)

\* Variant: another rotation slips in between the handler's changeHost() and
\* the issuing of its retry.
CatchInterrupted(c, error) ==
  IF IsBusy(error)
  THEN LET own == changeHost(activeHostIndex, hosts, port)
           moved == changeHost(own.activeHostIndex, hosts, port)
       IN  /\ activeHostIndex' = moved.activeHostIndex
           /\ baseURL' = moved.baseURL
           /\ advances' = advances + 2
           /\ Issue(c, RetryArgs(args[c].path, args[c].method,
                                 args[c].queryParams, args[c].body),
                    moved.baseURL, moved.activeHostIndex, advances + 2)
           /\ UNCHANGED <<config, args, outcome>>
  ELSE Finish(c, "rejected", <<"undefined">>, error)

\* Variant: with a single host there is nowhere to switch to, so a 503 is
\* passed on to the caller.
CatchSingleHostGivesUp(c, error) ==
  IF IsBusy(error) /\ Len(hosts) > 1
  THEN LET moved == changeHost(activeHostIndex, hosts, port)
       IN  /\ activeHostIndex' = moved.activeHostIndex
           /\ baseURL' = moved.baseURL
           /\ advances' = advances + 1
           /\ Issue(c, RetryArgs(args[c].path, args[c].method,
                                 args[c].queryParams, args[c].body),
                    moved.baseURL, moved.activeHostIndex, advances + 1)
           /\ UNCHANGED <<config, args, outcome>>
  ELSE Finish(c, "rejected", <<"undefined">>, error)

\* The request promise rejected: the catch handler of request().  On a 503
\* status error it calls changeHost() and returns this.request(path, method);
\* otherwise it rethrows and the call rejects with that error.
Catch(c, error) ==
  IF IsBusy(error)
  THEN LET moved == changeHost(activeHostIndex, hosts, port)
       IN  /\ activeHostIndex' = moved.activeHostIndex
           /\ baseURL' = moved.baseURL
           /\ advances' = advances + 1
           /\ Issue(c, RetryArgs(args[c].path, args[c].method,
                                 args[c].queryParams, args[c].body),
                    moved.baseURL, moved.activeHostIndex, advances + 1)
           /\ UNCHANGED <<config, args, outcome>>
  ELSE Finish(c, "rejected", <<"undefined">>, error)

\* The transport settles the outstanding request of c with r.
Deliver(c, r) ==
  /\ state[c] = "pending"
  /\ <<c, Len(sent[c])>> \in inflight
  /\ received' = [received EXCEPT ![c] = Append(@, r)]

\* The transport answers 200 with a JSON body.
RespondOK(c) ==
  \E b \in Bodies : Deliver(c, Fulfilled(b)) /\ Then(c, b)

\* The transport answers 503.
RespondBusy(c) ==
  WithinBudget /\ Deliver(c, Rejected(BusyError)) /\ Catch(c, BusyError)

\* The transport fails in any other way.
RespondError(c) ==
  \E e \in OtherErrors : Deliver(c, Rejected(e)) /\ Catch(c, e)

Next ==
  \E c \in Callers :
    \/ StartCall(c)
    \/ RespondOK(c)
    \/ RespondBusy(c)
    \/ RespondError(c)

Spec == Init /\ [][Next]_vars

\* Every host answers every attempt with 503, and every request is answered.
NextBusy ==
  \E c \in Callers :
    \/ StartCall(c)
    \/ RespondBusy(c)

SpecBusy ==
  Init /\ [][NextBusy]_vars /\ \A c \in Callers : WF_vars(RespondBusy(c))

\* One call at a time: a call starts only when no other is in progress.
StartAlone(c) ==
  /\ \A d \in Callers : state[d] # "pending"
  /\ StartCall(c)

NextSeq ==
  \E c \in Callers :
    \/ StartAlone(c)
    \/ RespondOK(c)
    \/ RespondBusy(c)
    \/ RespondError(c)

SpecSeq == Init /\ [][NextSeq]_vars

\* No call is retried more often than this when some host is healthy: every
\* Len(hosts) rotations bring the cursor to a healthy host and end a call.
LiveCap == NumCallers * (Len(hosts) + 1)

\* A host that is not known healthy answers 503.
RespondBusyLive(c) ==
  /\ state[c] = "pending"
  /\ sent[c][Len(sent[c])].index + 1 \notin healthy
  /\ TotalSent < LiveCap
  /\ Deliver(c, Rejected(BusyError))
  /\ Catch(c, BusyError)

\* Any host may answer 200 or fail otherwise; what the answer carries makes
\* no difference to whether the call ends.
RespondOKLive(c) ==
  Deliver(c, Fulfilled([status |-> "ok"])) /\ Then(c, [status |-> "ok"])

RespondErrorLive(c) ==
  /\ Deliver(c, Rejected([name |-> "RequestError", statusCode |-> Undefined]))
  /\ Catch(c, [name |-> "RequestError", statusCode |-> Undefined])

\* The transport answers the outstanding request of c.
RespondLive(c) ==
  \/ RespondOKLive(c)
  \/ RespondErrorLive(c)
  \/ RespondBusyLive(c)

\* The calls of this specification are getServerStatus calls.
StartLive(c) ==
  /\ StartCall(c)
  /\ args'[c] = getServerStatus

NextLive ==
  \E c \in Callers :
    \/ StartLive(c)
    \/ RespondLive(c)

\* Every request issued is eventually answered.
SpecLive ==
  InitLive /\ [][NextLive]_vars /\ \A c \in Callers : WF_vars(RespondLive(c))

TypeOK ==
  /\ activeHostIndex \in 0..(Len(hosts) - 1)
  /\ \A c \in Callers : state[c] \in {"idle", "pending", "resolved", "rejected"}
  /\ TotalSent <= MaxRequests

\* --------------------------------------------------------------- properties
Last(seq) == seq[Len(seq)]

\* In this step the transport delivered a settlement to c.
Delivered(c) == Len(received'[c]) = Len(received[c]) + 1

\* In this step the transport delivered a 503 to c.
DeliveredBusy(c) == Delivered(c) /\ Last(received'[c]) = Rejected(BusyError)

\* In this step the transport delivered a failure other than a 503 to c.
DeliveredOtherError(c) ==
  /\ Delivered(c)
  /\ Last(received'[c]).kind = "rejected"
  /\ Last(received'[c]) # Rejected(BusyError)

\* The identity-only query parameters.
IdentityOnly == [k \in {"user.name"} |-> username]

\* C1: a step in which an attempt of a call fails with 503 calls changeHost()
\* exactly once (the cursor moves to its successor, one more advance is
\* counted) and issues exactly one new request, for that call only, with the
\* path and the method of the original call, against the base URL of the
\* host the cursor points to after the step.
C1_RetryOn503 ==
  [][\A c \in Callers :
       DeliveredBusy(c) =>
         /\ advances' = advances + 1
         /\ activeHostIndex' = (activeHostIndex + 1) % Len(hosts)
         /\ Len(sent'[c]) = Len(sent[c]) + 1
         /\ SubSeq(sent'[c], 1, Len(sent[c])) = sent[c]
         /\ \A d \in Callers \ {c} : sent'[d] = sent[d]
         /\ Last(sent'[c]).options.uri = args[c].path
         /\ Last(sent'[c]).options.method = args[c].method
         /\ Last(sent'[c]).options.uri = sent[c][1].options.uri
         /\ Last(sent'[c]).options.method = sent[c][1].options.method
         /\ Last(sent'[c]).options.baseUrl
              = BaseURLOf(hosts[activeHostIndex' + 1], port)
         /\ <<c, Len(sent'[c])>> \in inflight']_vars

\* A POST call was retried once, against another base URL than its first attempt.
C1_Witness ==
  \E c \in Callers :
    /\ BusyCount(c) = 1
    /\ Len(sent[c]) = 2
    /\ sent[c][1].options.method = "POST"
    /\ sent[c][2].options.baseUrl # sent[c][1].options.baseUrl

\* C2: every retry (every request of a call after its first) carries exactly
\* the query parameters {user.name: identity} and no body, whatever the
\* original call supplied; its path and method are those of the original call.
C2_RetryDropsParamsAndBody ==
  \A c \in Callers : \A k \in 2..Len(sent[c]) :
    /\ sent[c][k].options.qs = IdentityOnly
    /\ sent[c][k].options.form = Undefined
    /\ sent[c][k].options.uri = sent[c][1].options.uri
    /\ sent[c][k].options.method = sent[c][1].options.method

\* A call that supplied a format parameter and a body was retried.
C2_Witness ==
  \E c \in Callers :
    /\ Len(sent[c]) >= 2
    /\ "format" \in DOMAIN sent[c][1].options.qs
    /\ sent[c][1].options.form # Undefined
    /\ args[c].body # Undefined

\* C3: a step in which an attempt fails with anything other than the 503
\* status error rejects the call with that same error, leaves the cursor, the
\* base URL and the advance count unchanged and issues no request; and no
\* request is ever issued for a rejected call.
C3_OtherErrorsPropagate ==
  [][\A c \in Callers :
       /\ DeliveredOtherError(c) =>
            /\ state'[c] = "rejected"
            /\ outcome'[c].kind = "rejected"
            /\ outcome'[c].error = Last(received'[c]).error
            /\ activeHostIndex' = activeHostIndex
            /\ baseURL' = baseURL
            /\ advances' = advances
            /\ sent' = sent
            /\ \A k \in 1..Len(sent'[c]) : <<c, k>> \notin inflight'
       /\ state[c] = "rejected" =>
            /\ state'[c] = "rejected"
            /\ sent'[c] = sent[c]
            /\ outcome'[c] = outcome[c]]_vars

\* listPartitions was answered with status 10241 and rejected with it after
\* one request.
C3_Witness ==
  \E c \in Callers :
    /\ args[c].op = "listPartitions"
    /\ state[c] = "rejected"
    /\ outcome[c].error = [name |-> "StatusCodeError",
                           statusCode |-> Some(NotPartitioned)]
    /\ Len(sent[c]) = 1

\* C4: every request issued, first attempt or retry, carries user.name equal
\* to the configured identity.
C4_IdentityOnEveryRequest ==
  \A c \in Callers : \A k \in 1..Len(sent[c]) :
    /\ "user.name" \in DOMAIN sent[c][k].options.qs
    /\ sent[c][k].options.qs["user.name"] = username

\* A call that supplied another user.name was issued and retried.
C4_Witness ==
  \E c \in Callers :
    /\ "user.name" \in DOMAIN args[c].queryParams
    /\ args[c].queryParams["user.name"] # username
    /\ Len(sent[c]) >= 2

\* In this step the transport delivered a 200 to c.
DeliveredOK(c) == Delivered(c) /\ Last(received'[c]).kind = "fulfilled"

\* C5: a step in which the first attempt of a call succeeds resolves the call
\* without calling changeHost(): it leaves the advance count, the cursor and
\* the base URL unchanged, one request was issued for the call, and when no
\* other call rotated since the call started the cursor and the base URL are
\* those the call started with.  Starting the call does not rotate either.
C5_SuccessDoesNotAdvance ==
  [][\A c \in Callers :
       /\ (DeliveredOK(c) /\ Len(received[c]) = 0) =>
            /\ state'[c] = "resolved"
            /\ advances' = advances
            /\ activeHostIndex' = activeHostIndex
            /\ baseURL' = baseURL
            /\ sent' = sent
            /\ Len(sent'[c]) = 1
            /\ advances' = sent[c][1].advances =>
                 /\ activeHostIndex' = sent[c][1].index
                 /\ baseURL' = sent[c][1].options.baseUrl
       /\ (state[c] = "idle" /\ state'[c] # "idle") =>
            /\ advances' = advances
            /\ activeHostIndex' = activeHostIndex
            /\ baseURL' = baseURL
            /\ Len(sent'[c]) = 1]_vars

\* A call resolved on its first attempt, with the cursor where it started.
C5_Witness ==
  \E c \in Callers :
    /\ state[c] = "resolved"
    /\ Len(sent[c]) = 1
    /\ Len(received[c]) = 1
    /\ advances = sent[c][1].advances
    /\ baseURL = sent[c][1].options.baseUrl

\* C6: failover is transparent.  A step that delivers a 503 leaves the call
\* pending with a new request outstanding against the successor of the
\* active host; a step that delivers a 200 resolves the call with the field
\* its method projects out of that body (status for getServerStatus,
\* partitions for listPartitions); and no call rejects with the 503 error.
C6_TransparentFailover ==
  [][\A c \in Callers :
       /\ DeliveredBusy(c) =>
            /\ state'[c] = "pending"
            /\ outcome'[c].kind = "none"
            /\ <<c, Len(sent'[c])>> \in inflight'
            /\ Last(sent'[c]).options.baseUrl
                 = BaseURLOf(hosts[((activeHostIndex + 1) % Len(hosts)) + 1], port)
       /\ DeliveredOK(c) =>
            LET res == Last(received'[c]).body
            IN  /\ state'[c] = "resolved"
                /\ outcome'[c].kind = "resolved"
                /\ (args[c].op = "getServerStatus" /\ "status" \in DOMAIN res)
                     => outcome'[c].value = <<"value", res["status"]>>
                /\ (args[c].op = "getServerStatus" /\ "status" \notin DOMAIN res)
                     => outcome'[c].value = <<"undefined">>
                /\ (args[c].op = "listPartitions" /\ "partitions" \in DOMAIN res)
                     => outcome'[c].value = <<"value", res["partitions"]>>
       /\ state'[c] = "rejected" =>
            outcome'[c].error # BusyError]_vars

\* Pool [h1, h2], port 1234, identity bob: getServerStatus got a 503 from h1,
\* was retried against h2 with path /status and query {user.name: bob}, and
\* resolved with the status field of the 200 response.
C6_Witness ==
  \E c \in Callers :
    /\ hosts = <<"h1", "h2">>
    /\ args[c].op = "getServerStatus"
    /\ Len(sent[c]) = 2
    /\ Len(received[c]) = 2
    /\ sent[c][1].options.baseUrl = "http://h1:1234/templeton/v1"
    /\ received[c][1] = Rejected(BusyError)
    /\ sent[c][2].options =
         [method |-> "GET", uri |-> "/status",
          baseUrl |-> "http://h2:1234/templeton/v1",
          qs |-> [k \in {"user.name"} |-> "bob"], json |-> TRUE,
          form |-> Undefined]
    /\ received[c][2] = Fulfilled([status |-> "ok"])
    /\ state[c] = "resolved"
    /\ outcome[c].value = <<"value", "ok">>

\* C7: when every host answers every attempt with 503, no call ever resolves
\* or rejects, every 503 is followed by a rotation and a retry, and once a
\* call is in progress the number of requests issued reaches any bound put
\* on it (here MaxRequests).
C7_BusyForever ==
  /\ [](\A c \in Callers :
          /\ state[c] \notin {"resolved", "rejected"}
          /\ state[c] = "pending" => Len(sent[c]) = BusyCount(c) + 1)
  /\ [](advances = 1 + TotalBusy)
  /\ ((\E c \in Callers : state[c] = "pending") ~> (TotalSent = MaxRequests))

\* A call was tried more often than there are hosts and is still pending.
C7_Witness ==
  \E c \in Callers :
    /\ Len(hosts) >= 2
    /\ Len(sent[c]) > Len(hosts)
    /\ BusyCount(c) = Len(sent[c]) - 1
    /\ state[c] = "pending"

\* A call has ended.
Ended(c) == state[c] \in {"resolved", "rejected"}

\* C8: the cursor is never reset between calls.  Starting a call and ending
\* one leave the cursor and the base URL unchanged, and the first attempt of
\* a call is issued against the stored base URL: when a call that rotated the
\* cursor to host h has ended and no other rotation happened since, the first
\* attempt of a call started then goes to h.
C8_CursorPersists ==
  [][\A c \in Callers :
       /\ (state[c] = "idle" /\ state'[c] # "idle") =>
            /\ activeHostIndex' = activeHostIndex
            /\ baseURL' = baseURL
            /\ Len(sent'[c]) = 1
            /\ sent'[c][1].options.baseUrl = baseURL
            /\ sent'[c][1].options.baseUrl
                 = BaseURLOf(hosts[activeHostIndex + 1], port)
            /\ \A x \in Callers :
                 (Ended(x) /\ Len(sent[x]) >= 2
                    /\ Last(sent[x]).advances = advances) =>
                   sent'[c][1].options.baseUrl = Last(sent[x]).options.baseUrl
       /\ (~Ended(c) /\ state'[c] \in {"resolved", "rejected"}) =>
            /\ activeHostIndex' = activeHostIndex
            /\ baseURL' = baseURL]_vars

\* A call started on the first host, was retried on the second and ended;
\* the other call then had its first attempt issued against the second host.
C8_Witness ==
  \E x, y \in Callers :
    /\ x # y
    /\ Ended(x)
    /\ Len(sent[x]) = 2
    /\ sent[x][1].index = 0
    /\ sent[x][2].index = 1
    /\ Len(sent[y]) = 1
    /\ Len(received[x]) = 2
    /\ sent[y][1].advances = sent[x][2].advances
    /\ sent[y][1].index = 1
    /\ sent[y][1].options.baseUrl = sent[x][2].options.baseUrl
    /\ sent[y][1].options.baseUrl # sent[x][1].options.baseUrl

\* C9: consecutive attempts of a call go to hosts that lie as many places
\* apart in the pool as changeHost() was called between issuing them, so a
\* retry skips the successor of the previous attempt's host only when other
\* calls rotated the cursor in between.
C9_SkipOnlyByOtherRotation ==
  \A c \in Callers : \A k \in 2..Len(sent[c]) :
    LET d == sent[c][k].advances - sent[c][k - 1].advances
    IN  /\ d >= 1
        /\ sent[c][k].index = (sent[c][k - 1].index + d) % Len(hosts)
        /\ sent[c][k].options.baseUrl
             = BaseURLOf(hosts[sent[c][k].index + 1], port)
        /\ sent[c][k].index # (sent[c][k - 1].index + 1) % Len(hosts) => d >= 2

\* Pool [hA, hB, hC]: a call was tried against hA and retried against hC,
\* the other call's 503 having moved the cursor to hB in between.
C9_Witness ==
  \E c, d \in Callers :
    /\ c # d
    /\ hosts = <<"hA", "hB", "hC">>
    /\ Len(sent[c]) = 2
    /\ sent[c][1].options.baseUrl = BaseURLOf("hA", port)
    /\ sent[c][2].options.baseUrl = BaseURLOf("hC", port)
    /\ Len(sent[d]) = 2
    /\ sent[d][2].options.baseUrl = BaseURLOf("hB", port)
    /\ sent[d][2].advances = sent[c][1].advances + 1
    /\ sent[c][2].advances = sent[c][1].advances + 2

\* The outstanding requests of c are at most its latest one.
OneOutstanding(c) ==
  /\ \A k \in 1..Len(sent[c]) : <<c, k>> \in inflight => k = Len(sent[c])
  /\ state[c] # "pending" => \A k \in 1..Len(sent[c]) : <<c, k>> \notin inflight
  /\ state[c] = "pending" => <<c, Len(sent[c])>> \in inflight
  /\ \A k \in 1..(Len(sent[c]) - 1) :
       k <= Len(received[c]) /\ received[c][k] = Rejected(BusyError)

\* C10: a call has at most one request outstanding, its latest; every earlier
\* attempt was answered with a 503 before the next was issued; a call that is
\* idle or has ended has none outstanding, and nothing is issued for a call
\* that has ended.
C10_OneOutstanding ==
  [][\A c \in Callers :
       /\ OneOutstanding(c)
       /\ OneOutstanding(c)'
       /\ Len(sent'[c]) > Len(sent[c]) =>
            /\ Len(sent'[c]) = Len(sent[c]) + 1
            /\ Len(received'[c]) = Len(sent[c])
            /\ \A k \in 1..Len(sent[c]) : <<c, k>> \notin inflight'
       /\ Ended(c) => (sent'[c] = sent[c] /\ state'[c] = state[c])]_vars

\* A call is waiting for the answer to its third attempt.
C10_Witness ==
  \E c \in Callers :
    /\ Len(sent[c]) = 3
    /\ Len(received[c]) = 2
    /\ state[c] = "pending"
    /\ {k \in 1..3 : <<c, k>> \in inflight} = {3}

\* C11: the first request of describeTable(d, t, true) has path
\* /ddl/database/d/table/t, method GET and the query parameters
\* format=extended and user.name=identity; with extended false it carries
\* user.name only; either way the call resolves with the decoded body itself.
C11_DescribeTable ==
  \A c \in Callers :
    args[c].op = "describeTable" =>
      /\ args[c] \in {describeTable("d", "t", TRUE), describeTable("d", "t", FALSE)}
      /\ sent[c][1].options.uri = "/ddl/database/d/table/t"
      /\ sent[c][1].options.method = "GET"
      /\ sent[c][1].options.form = Undefined
      /\ args[c] = describeTable("d", "t", TRUE) =>
           sent[c][1].options.qs =
             [k \in {"format", "user.name"} |->
                IF k = "format" THEN "extended" ELSE username]
      /\ args[c] = describeTable("d", "t", FALSE) =>
           /\ "format" \notin DOMAIN sent[c][1].options.qs
           /\ sent[c][1].options.qs = [k \in {"user.name"} |-> username]
      /\ state[c] = "resolved" =>
           /\ Last(received[c]).kind = "fulfilled"
           /\ outcome[c].value = <<"object", Last(received[c]).body>>

\* describeTable(d, t, true) was requested with format=extended and resolved
\* with the whole body of the response.
C11_Witness ==
  \E c \in Callers :
    /\ args[c] = describeTable("d", "t", TRUE)
    /\ state[c] = "resolved"
    /\ Len(sent[c]) = 1
    /\ sent[c][1].options.qs["format"] = "extended"
    /\ outcome[c].value = <<"object", [partitions |-> "p0", table |-> "t"]>>

\* The cursor is an index into the pool.
CursorInRange == 0 <= activeHostIndex /\ activeHostIndex < Len(hosts)

\* C12: in every reachable state 0 <= cursor < len(pool), and every step that
\* calls changeHost() calls it once and sets the cursor to
\* (cursor + 1) mod len(pool); no other step changes the cursor.
C12_CursorInRange ==
  [][/\ Len(hosts) >= 1
     /\ CursorInRange
     /\ CursorInRange'
     /\ advances' # advances =>
          /\ advances' = advances + 1
          /\ activeHostIndex' = (activeHostIndex + 1) % Len(hosts)
     /\ advances' = advances => activeHostIndex' = activeHostIndex]_vars

\* On a pool of three hosts the cursor went round and is at 0 again.
C12_Witness ==
  /\ Len(hosts) = 3
  /\ advances = 4
  /\ activeHostIndex = 0

\* All requests issued so far, over all callers.
AllSent == UNION {{sent[c][k] : k \in 1..Len(sent[c])} : c \in Callers}

\* C13: from every reachable cursor, len(pool) consecutive calls of
\* changeHost() give back the same cursor and the same base URL; and in the
\* runs of the client, a request issued len(pool) advances after another one
\* went to the same host, as does the stored base URL len(pool) advances
\* after a request.
C13_FullCycle ==
  /\ changeHostTimes(Len(hosts), activeHostIndex, hosts, port)
       = [activeHostIndex |-> activeHostIndex, baseURL |-> baseURL]
  /\ \A r \in AllSent :
       /\ advances = r.advances + Len(hosts) =>
            /\ activeHostIndex = r.index
            /\ baseURL = r.options.baseUrl
       /\ \A q \in AllSent :
            q.advances = r.advances + Len(hosts) =>
              /\ q.index = r.index
              /\ q.options.baseUrl = r.options.baseUrl

\* On a pool of two hosts a request was issued against the second host, and
\* two advances later the cursor and the base URL are those of that request.
C13_Witness ==
  /\ Len(hosts) = 2
  /\ activeHostIndex = 1
  /\ \E r \in AllSent :
       /\ r.index = 1
       /\ advances = r.advances + 2
       /\ baseURL = r.options.baseUrl

\* The stored base URL is the one of the host under the cursor.
BaseURLCurrent ==
  baseURL = "http://" \o hosts[activeHostIndex + 1] \o ":" \o ToString(port)
              \o "/templeton/v1"

\* C14: in every reachable state the stored base URL is
\* http://<pool[cursor]>:<port>/templeton/v1, and every request, first
\* attempt or retry, is issued against the base URL stored, hence against
\* pool[cursor], at the moment it is issued.
C14_BaseURLFollowsCursor ==
  [][/\ BaseURLCurrent
     /\ BaseURLCurrent'
     /\ \A c \in Callers :
          Len(sent'[c]) > Len(sent[c]) =>
            /\ Last(sent'[c]).options.baseUrl = baseURL'
            /\ Last(sent'[c]).options.baseUrl
                 = "http://" \o hosts[activeHostIndex' + 1] \o ":"
                     \o ToString(port) \o "/templeton/v1"]_vars

\* On the pool [hA, hB, hC] with the default port the cursor is on the third
\* host and a request was issued against http://hC:50111/templeton/v1.
C14_Witness ==
  /\ hosts = <<"hA", "hB", "hC">>
  /\ activeHostIndex = 2
  /\ baseURL = "http://hC:50111/templeton/v1"
  /\ \E r \in AllSent : r.options.baseUrl = "http://hC:50111/templeton/v1"

\* changeHost() ran once at construction and once per 503 delivered; while it
\* has run only once the cursor is 0 and requests go to the first host.
AdvancesAccounted ==
  /\ advances = 1 + TotalBusy
  /\ advances = 1 =>
       /\ activeHostIndex = 0
       /\ baseURL = "http://" \o hosts[1] \o ":" \o ToString(port) \o "/templeton/v1"
  /\ \A r \in AllSent :
       r.advances = 1 =>
         /\ r.index = 0
         /\ r.options.baseUrl
              = "http://" \o hosts[1] \o ":" \o ToString(port) \o "/templeton/v1"

\* C15: changeHost() is called once at construction, which leaves the cursor
\* at 0 so that the first request targets pool[0]; afterwards it is called
\* exactly once in each step that handles a 503 and in no other step, so the
\* number of calls is always 1 plus the number of 503 responses handled.
C15_AdvanceCount ==
  [][/\ AdvancesAccounted
     /\ AdvancesAccounted'
     /\ advances' # advances =>
          /\ advances' = advances + 1
          /\ \E c \in Callers : DeliveredBusy(c)
     /\ \A c \in Callers : DeliveredBusy(c) => advances' = advances + 1]_vars

\* Two 503s, one other failure and one success were handled: changeHost()
\* has run three times.
C15_Witness ==
  /\ advances = 3
  /\ TotalBusy = 2
  /\ \E c, d \in Callers :
       /\ state[c] = "rejected"
       /\ state[d] = "resolved"
       /\ \E r \in AllSent : r.advances = 1 /\ r.index = 0

\* The hosts (positions in the pool) that have answered no attempt with 503.
GoodHosts ==
  {h \in 1..Len(hosts) :
     \A c \in Callers : \A k \in 1..Len(received[c]) :
       sent[c][k].index + 1 = h => received[c][k] # Rejected(BusyError)}

\* C16: with one call in progress at a time, the k-th attempt of a call
\* (k = 0, 1, ...) is issued against pool[(c + k) mod N], c being the cursor
\* when the call started; and as long as some host has answered no attempt
\* with 503, no call has made more than N attempts.
C16_SoloCallWalksThePool ==
  \A c \in Callers :
    /\ \A k \in 1..Len(sent[c]) :
         /\ sent[c][k].index = (sent[c][1].index + (k - 1)) % Len(hosts)
         /\ sent[c][k].options.baseUrl
              = "http://" \o hosts[((sent[c][1].index + (k - 1)) % Len(hosts)) + 1]
                  \o ":" \o ToString(port) \o "/templeton/v1"
    /\ GoodHosts # {} => Len(sent[c]) <= Len(hosts)

\* On a pool of three hosts a call got 503 from the first two hosts and ended
\* on its third attempt, against the third host, which never answered 503.
C16_Witness ==
  \E c \in Callers :
    /\ Len(hosts) = 3
    /\ Len(sent[c]) = 3
    /\ Ended(c)
    /\ sent[c][1].index = 0
    /\ sent[c][3].index = 2
    /\ 3 \in GoodHosts

\* C17: when at least one host never answers 503 and every request is
\* answered, every call in progress eventually resolves or rejects, however
\* the calls interleave; and the retries never reach the number at which
\* the model would stop answering.
C17_EveryCallEnds ==
  /\ [](\A c \in Callers :
          (state[c] = "pending" /\ Last(sent[c]).index + 1 \notin healthy)
            => TotalSent < LiveCap)
  /\ \A c \in Callers : (state[c] = "pending") ~> Ended(c)

\* On the pool [hA, hB, hC] with a healthy host a call went from hA to hC,
\* skipping hB because of the other call's rotation, and has ended.
C17_Witness ==
  \E c \in Callers :
    /\ healthy # {}
    /\ Len(hosts) = 3
    /\ Len(sent[c]) >= 2
    /\ sent[c][1].index = 0
    /\ sent[c][2].index = 2
    /\ Ended(c)

\* Every retry was issued right after a changeHost() call of its own: no two
\* retries were issued after the same number of changeHost() calls, and none
\* after as many as a first attempt that was issued later.
OwnAdvance ==
  \A c, d \in Callers : \A k \in 2..Len(sent[c]) :
    /\ \A j \in 2..Len(sent[d]) :
         (c # d \/ k # j) => sent[c][k].advances # sent[d][j].advances
    /\ sent[c][k].advances > sent[c][k - 1].advances
    /\ sent[c][k].options.baseUrl = BaseURLOf(hosts[sent[c][k].index + 1], port)

\* C18: handling a 503 is one uninterrupted step: in the step that delivers a
\* 503 to a call, changeHost() runs exactly once and the retry is issued
\* against the host that this one rotation selected (the successor of the
\* cursor the handler found), which is the stored base URL at that moment;
\* no other call sends, receives or changes state in that step, and every
\* retry ever issued follows a rotation of its own.
C18_HandlingIsAtomic ==
  [][/\ OwnAdvance'
     /\ \A c \in Callers :
          DeliveredBusy(c) =>
            LET own == (activeHostIndex + 1) % Len(hosts)
            IN  /\ advances' = advances + 1
                /\ activeHostIndex' = own
                /\ Len(sent'[c]) = Len(sent[c]) + 1
                /\ Last(sent'[c]).index = own
                /\ Last(sent'[c]).advances = advances + 1
                /\ Last(sent'[c]).options.baseUrl = BaseURLOf(hosts[own + 1], port)
                /\ Last(sent'[c]).options.baseUrl = baseURL'
                /\ \A d \in Callers \ {c} :
                     /\ sent'[d] = sent[d]
                     /\ received'[d] = received[d]
                     /\ state'[d] = state[d]]_vars

\* Pool [hA, hB, hC], two calls in progress at once, both first tried against
\* hA: the 503 of one moved the cursor to hB and its retry went to hB, then
\* the 503 of the other moved the cursor to hC and its retry went to hC; the
\* first retry is still outstanding against hB.
C18_Witness ==
  \E c, d \in Callers :
    /\ c # d
    /\ hosts = <<"hA", "hB", "hC">>
    /\ state[c] = "pending" /\ state[d] = "pending"
    /\ Len(sent[c]) = 2 /\ Len(sent[d]) = 2
    /\ sent[c][1].index = 0 /\ sent[d][1].index = 0
    /\ sent[c][2].options.baseUrl = BaseURLOf("hB", port)
    /\ sent[d][2].options.baseUrl = BaseURLOf("hC", port)
    /\ sent[d][2].advances = sent[c][2].advances + 1
    /\ activeHostIndex = 2
    /\ baseURL # sent[c][2].options.baseUrl

\* C19: with a pool of exactly one host the cursor is 0 and stays 0 and the
\* base URL never changes; a 503 still runs changeHost() once and issues a
\* retry, the call staying in progress, and every request of every call is
\* issued against that one host.
C19_SingleHost ==
  [][Len(hosts) = 1 =>
       /\ activeHostIndex = 0
       /\ activeHostIndex' = 0
       /\ baseURL = BaseURLOf(hosts[1], port)
       /\ baseURL' = baseURL
       /\ \A r \in AllSent' : r.index = 0 /\ r.options.baseUrl = baseURL
       /\ \A c \in Callers :
            DeliveredBusy(c) =>
              /\ advances' = advances + 1
              /\ state'[c] = "pending"
              /\ outcome'[c].kind = "none"
              /\ Len(sent'[c]) = Len(sent[c]) + 1
              /\ <<c, Len(sent'[c])>> \in inflight'
              /\ Last(sent'[c]).advances = advances + 1
              /\ Last(sent'[c]).options.baseUrl
                   = Last(sent[c]).options.baseUrl]_vars

\* The default pool [localhost]: a call got two 503s and was tried three times,
\* each time against http://localhost:50111/templeton/v1; changeHost() has run
\* three times and the cursor is 0.
C19_Witness ==
  \E c \in Callers :
    /\ hosts = <<"localhost">>
    /\ Len(sent[c]) = 3
    /\ BusyCount(c) = 2
    /\ \A k \in 1..3 :
         sent[c][k].options.baseUrl = "http://localhost:50111/templeton/v1"
    /\ sent[c][3].advances = 3
    /\ advances = 3
    /\ activeHostIndex = 0
    /\ baseURL = "http://localhost:50111/templeton/v1"

====
